---- MODULE Spec2Model ----
(***************************************************************************)
(* The download queue of the yt-dlp / WireGuard MCP server (server.py):    *)
(* the DownloadQueue object, its background worker thread, the job         *)
(* processing of _download_video_internal with its VPN bring-up and        *)
(* teardown, and the tools that call into the queue and the VPN.           *)
(*                                                                         *)
(* Strings the code inspects character by character (config file stems,    *)
(* URLs, country and city codes) are sequences of one-character strings;   *)
(* Python's None for such a value is the empty sequence, which Python      *)
(* treats as false exactly like None.  Job references are positions in     *)
(* the heap of DownloadJob objects `jobs`; the null reference is 0.        *)
(***************************************************************************)
EXTENDS Naturals, Sequences, FiniteSets

\* ------------------------------------------------------------------ bounds

\* Number of queue_download calls in a run.
MaxJobs == 2
\* Number of thread slots the process may use for worker threads.
MaxThreads == 2
\* Number of external invocations (fetch, wg, wg-quick, mkdir) that may end
\* other than in success in a run.
MaxFaults == 1

\* ------------------------------------------------------------- characters

NoStr == <<>>
Null == "None"

LowerLetters ==
  <<"a","b","c","d","e","f","g","h","i","j","k","l","m",
    "n","o","p","q","r","s","t","u","v","w","x","y","z">>
UpperLetters ==
  <<"A","B","C","D","E","F","G","H","I","J","K","L","M",
    "N","O","P","Q","R","S","T","U","V","W","X","Y","Z">>
\* The characters of the model's strings in code point order.
CodePoints ==
  <<"#","%","-",".","/","0","1","2","3","4","5","6","7","8","9",":","=","?">>
  \o UpperLetters \o <<"_">> \o LowerLetters \o <<"ñ">>

Range(s) == {s[i] : i \in 1..Len(s)}

Ord(c) == CHOOSE i \in 1..Len(CodePoints) : CodePoints[i] = c

\* str.lower() on one character.
LowerChar(c) ==
  IF \E i \in 1..26 : UpperLetters[i] = c
  THEN LowerLetters[CHOOSE i \in 1..26 : UpperLetters[i] = c]
  ELSE c

lower(s) == [i \in 1..Len(s) |-> LowerChar(s[i])]

\* Python's `sub in hay` on strings.
Contains(hay, sub) ==
  \E k \in 0..Len(hay) :
    /\ k + Len(sub) <= Len(hay)
    /\ \A i \in 1..Len(sub) : hay[k + i] = sub[i]

\* Python's string comparison a < b (lexicographic by code point).
StrLess(a, b) ==
  \E k \in 1..Len(b) :
    /\ \A i \in 1..(k - 1) : i <= Len(a) /\ a[i] = b[i]
    /\ \/ k = Len(a) + 1
       \/ k <= Len(a) /\ Ord(a[k]) < Ord(b[k])

\* sorted() of a finite set of strings.
RECURSIVE SortedSeq(_)
SortedSeq(S) ==
  IF S = {} THEN <<>>
  ELSE LET m == CHOOSE x \in S : \A y \in S \ {x} : StrLess(x, y)
       IN <<m>> \o SortedSeq(S \ {m})

\* --------------------------------------------------------- configuration

\* The stems of the *.conf files in /etc/wireguard.
WIREGUARD_DIR ==
  { <<"g","b","-","m","a","n","-","1">>,
    <<"g","b","-","l","o","n","-","1">>,
    <<"w","g","0">> }

\* The suffix of a config file's name.
conf == <<".","c","o","n","f">>

\* sorted(dir.glob("*.conf")): the paths are compared by file name, suffix
\* included; the model keeps the stems.
listing(dir) ==
  LET names == SortedSeq({stem \o conf : stem \in dir})
  IN [i \in 1..Len(names) |-> SubSeq(names[i], 1, Len(names[i]) - Len(conf))]

get_available_configs == listing(WIREGUARD_DIR)

\* re.match(r"([a-z]{2})-([a-z]{3})-", stem): the location, or the empty
\* dict (country and city both absent).
parse_config_location(stem) ==
  IF /\ Len(stem) >= 7
     /\ \A i \in {1, 2, 4, 5, 6} : stem[i] \in Range(LowerLetters)
     /\ stem[3] = "-"
     /\ stem[7] = "-"
  THEN [country |-> SubSeq(stem, 1, 2), city |-> SubSeq(stem, 4, 6), full |-> stem]
  ELSE [country |-> NoStr, city |-> NoStr, full |-> NoStr]

\* The configs of `country`, in listing order.
CountryConfigs(configs, country) ==
  SelectSeq(configs, LAMBDA c : parse_config_location(c).country = country)

\* A selection that does not look at the preferred city.
select_first_of_country(configs, country, preferred_city) ==
  IF country = NoStr \/ CountryConfigs(configs, country) = <<>> THEN NoStr
  ELSE CountryConfigs(configs, country)[1]

select_best_config_in(configs, country, preferred_city) ==
  IF country = NoStr THEN NoStr
  ELSE LET cc == CountryConfigs(configs, country)
           hits == SelectSeq(cc, LAMBDA c : parse_config_location(c).city = preferred_city)
       IN IF cc = <<>> THEN NoStr
          ELSE IF preferred_city # NoStr /\ hits # <<>> THEN hits[1]
          ELSE cc[1]

select_best_config(country, preferred_city) ==
  select_best_config_in(get_available_configs, country, preferred_city)

\* ------------------------------------------------------ country detection

\* The ordered table of detect_url_country: a rule matches when one of its
\* domain literals is in the host or one of its url literals is in the
\* lower-cased URL; the last row is the explicit video-platform rule.
CountryRules ==
  <<
     [domain |-> <<<<"b","b","c",".","c","o",".","u","k">>, <<"i","p","l","a","y","e","r">>, <<"i","t","v",".","c","o","m">>, <<"c","h","a","n","n","e","l","4",".","c","o","m">>, <<"c","h","a","n","n","e","l","5",".","c","o","m">>>>,
      url |-> <<>>,
      country |-> <<"g","b">>],
     [domain |-> <<<<".","u","k">>>>,
      url |-> <<<<"b","r","i","t","a","i","n">>, <<"b","r","i","t","i","s","h">>>>,
      country |-> <<"g","b">>],
     [domain |-> <<<<"h","u","l","u",".","c","o","m">>, <<"n","b","c",".","c","o","m">>, <<"a","b","c",".","c","o","m">>, <<"c","b","s",".","c","o","m">>, <<"f","o","x",".","c","o","m">>, <<"h","b","o",".","c","o","m">>, <<"p","e","a","c","o","c","k","t","v",".","c","o","m">>>>,
      url |-> <<>>,
      country |-> <<"u","s">>],
     [domain |-> <<<<".","u","s">>>>,
      url |-> <<>>,
      country |-> <<"u","s">>],
     [domain |-> <<<<"c","b","c",".","c","a">>, <<"c","t","v",".","c","a">>, <<"g","l","o","b","a","l","t","v",".","c","o","m">>>>,
      url |-> <<>>,
      country |-> <<"c","a">>],
     [domain |-> <<<<".","c","a">>>>,
      url |-> <<<<"c","a","n","a","d","a">>, <<"c","a","n","a","d","i","a","n">>>>,
      country |-> <<"c","a">>],
     [domain |-> <<<<"a","b","c",".","n","e","t",".","a","u">>, <<"s","b","s",".","c","o","m",".","a","u">>, <<"9","n","o","w",".","c","o","m",".","a","u">>, <<"1","0","p","l","a","y",".","c","o","m",".","a","u">>, <<"7","p","l","u","s",".","c","o","m",".","a","u">>>>,
      url |-> <<>>,
      country |-> <<"a","u">>],
     [domain |-> <<<<".","a","u">>>>,
      url |-> <<<<"a","u","s","t","r","a","l","i","a">>>>,
      country |-> <<"a","u">>],
     [domain |-> <<<<".","n","z">>>>,
      url |-> <<<<"n","e","w","z","e","a","l","a","n","d">>>>,
      country |-> <<"n","z">>],
     [domain |-> <<<<".","d","e">>>>,
      url |-> <<<<"g","e","r","m","a","n","y">>, <<"d","e","u","t","s","c","h","e">>>>,
      country |-> <<"d","e">>],
     [domain |-> <<<<".","f","r">>>>,
      url |-> <<<<"f","r","a","n","c","e">>>>,
      country |-> <<"f","r">>],
     [domain |-> <<<<".","i","t">>>>,
      url |-> <<<<"i","t","a","l","y">>, <<"i","t","a","l","i","a">>>>,
      country |-> <<"i","t">>],
     [domain |-> <<<<".","e","s">>>>,
      url |-> <<<<"s","p","a","i","n">>, <<"e","s","p","a","ñ","a">>>>,
      country |-> <<"e","s">>],
     [domain |-> <<<<".","n","l">>>>,
      url |-> <<<<"n","e","t","h","e","r","l","a","n","d","s">>>>,
      country |-> <<"n","l">>],
     [domain |-> <<<<".","s","e">>>>,
      url |-> <<<<"s","w","e","d","e","n">>>>,
      country |-> <<"s","e">>],
     [domain |-> <<<<".","n","o">>>>,
      url |-> <<<<"n","o","r","w","a","y">>>>,
      country |-> <<"n","o">>],
     [domain |-> <<<<".","d","k">>>>,
      url |-> <<<<"d","e","n","m","a","r","k">>>>,
      country |-> <<"d","k">>],
     [domain |-> <<<<".","j","p">>>>,
      url |-> <<<<"j","a","p","a","n">>>>,
      country |-> <<"j","p">>],
     [domain |-> <<<<".","k","r">>>>,
      url |-> <<<<"k","o","r","e","a">>>>,
      country |-> <<"k","r">>],
     [domain |-> <<<<".","s","g">>>>,
      url |-> <<<<"s","i","n","g","a","p","o","r","e">>>>,
      country |-> <<"s","g">>],
     [domain |-> <<<<".","h","k">>>>,
      url |-> <<<<"h","o","n","g","k","o","n","g">>>>,
      country |-> <<"h","k">>],
     [domain |-> <<<<"y","o","u","t","u","b","e",".","c","o","m">>, <<"y","o","u","t","u",".","b","e">>>>,
      url |-> <<>>,
      country |-> <<>>]
  >>

\* The URLs submitted in the model, by name.
Urls == {"bbc", "youtube", "de"}

\* The text of each URL.
UrlText(url) ==
  CASE url = "bbc" -> <<"h","t","t","p","s",":","/","/","W","W","W",".","B","B","C",".","c","o",".","u","k","/","i","p","l","a","y","e","r","/","e","p","1">>
    [] url = "youtube" -> <<"h","t","t","p","s",":","/","/","w","w","w",".","y","o","u","t","u","b","e",".","c","o","m","/","w","a","t","c","h","?","v","=","1">>
    [] url = "de" -> <<"h","t","t","p","s",":","/","/","m","e","d","i","a",".","e","x","a","m","p","l","e",".","d","e","/","c","l","i","p">>

\* urlparse(url).netloc: what lies between the "//" after the scheme and
\* the next "/", "?" or "#".
netloc(text) ==
  IF ~ \E k \in 1..Len(text) : k + 2 <= Len(text) /\ SubSeq(text, k, k + 2) = <<":","/","/">>
  THEN NoStr
  ELSE LET k == CHOOSE k \in 1..Len(text) :
                  /\ k + 2 <= Len(text)
                  /\ SubSeq(text, k, k + 2) = <<":","/","/">>
                  /\ \A j \in 1..(k - 1) : SubSeq(text, j, j + 2) # <<":","/","/">>
           rest == SubSeq(text, k + 3, Len(text))
           stops == {i \in 1..Len(rest) : rest[i] \in {"/", "?", "#"}}
           end == IF stops = {} THEN Len(rest)
                  ELSE (CHOOSE i \in stops : \A j \in stops : i <= j) - 1
       IN SubSeq(rest, 1, end)

RuleMatches(rule, domain, url_lower) ==
  \/ \E i \in 1..Len(rule.domain) : Contains(domain, rule.domain[i])
  \/ \E i \in 1..Len(rule.url) : Contains(url_lower, rule.url[i])

\* The country code the first matching rule gives, or none.
detect_url_country(url) ==
  LET text == UrlText(url)
      url_lower == lower(text)
      domain == lower(netloc(text))
      hits == {i \in 1..Len(CountryRules) : RuleMatches(CountryRules[i], domain, url_lower)}
  IN IF hits = {} THEN NoStr
     ELSE CountryRules[CHOOSE i \in hits : \A j \in hits : i <= j].country

\* ------------------------------------------------------------------ state

VARIABLES
  queue,        \* DownloadQueue.queue: job references, head first
  history,      \* DownloadQueue.history: job references, oldest first
  current_job,  \* DownloadQueue.current_job: a job reference or 0
  next_id,      \* DownloadQueue.next_id
  running,      \* DownloadQueue.running
  lock,         \* DownloadQueue.lock: "free", "client" or "worker"
  jobs,         \* the DownloadJob objects, in creation order
  threads,      \* the worker thread slots: position and local variables
  call,         \* the queue tool call a client has in progress
  iface,        \* the active WireGuard interface (external), or none
  faults,       \* external invocations that have failed so far
  published,    \* history variable: references ever appended to history
  dequeued,     \* history variable: references in the order the worker took them
  ext_touched,  \* history variable: a VPN tool changed iface during the job
  sel           \* a call of select_best_config on a directory: arguments and result

queue_vars == <<queue, history, current_job, next_id, running, lock>>
env_vars == <<iface, faults>>
hist_vars == <<published, dequeued, ext_touched>>
vars == <<queue_vars, jobs, threads, call, env_vars, hist_vars, sel>>

Threads == 1..MaxThreads

NoIface == NoStr

\* What queue_download is called with: url, auto_vpn, preferred_city.
Requests ==
  { [url |-> "bbc", auto_vpn |-> TRUE, preferred_city |-> <<"m","a","n">>],
    [url |-> "youtube", auto_vpn |-> TRUE, preferred_city |-> NoStr],
    [url |-> "bbc", auto_vpn |-> FALSE, preferred_city |-> NoStr] }

\* DownloadJob(...) as add constructs it.  output_dir, format_spec and
\* added_at are carried by the code but never read by the queue.
DownloadJob(id, req) ==
  [id |-> id, url |-> req.url, status |-> "queued", auto_vpn |-> req.auto_vpn,
   preferred_city |-> req.preferred_city, started_at |-> Null,
   completed_at |-> Null, error |-> NoStr, result |-> NoStr]

\* A thread slot before its thread is started, and the locals a worker has
\* when it takes a job.
FreshLocals(pc, job) ==
  [pc |-> pc, job |-> job, original_vpn |-> NoIface, vpn_started |-> FALSE,
   vpn_msg |-> Null, config |-> NoStr, outcome |-> Null, retval |-> NoStr,
   exc |-> NoStr, active |-> NoIface, td_queried |-> FALSE,
   down_on |-> NoIface, down_ok |-> FALSE, at_start |-> NoIface]

NoSnapshot == [current |-> <<>>, queued |-> <<>>, recent_history |-> <<>>]
NoCall == [op |-> "none", arg |-> 0, ret |-> Null, step |-> "done", snap |-> NoSnapshot]

\* No selection is asked for: the state of the queue specifications.
NoSelection ==
  [dir |-> {}, country |-> NoStr, preferred_city |-> NoStr, out |-> NoStr,
   done |-> TRUE]

QueueInit ==
  /\ queue = <<>>
  /\ history = <<>>
  /\ current_job = 0
  /\ next_id = 1
  /\ running = FALSE
  /\ lock = "free"
  /\ jobs = <<>>
  /\ threads = [t \in Threads |-> FreshLocals("unstarted", 0)]
  /\ call = NoCall
  /\ iface = NoIface
  /\ faults = 0
  /\ published = {}
  /\ dequeued = <<>>
  /\ ext_touched = FALSE

Init == QueueInit /\ sel = NoSelection

\* A lock that excludes nobody: what the queue would be without self.lock.
CanAcquireAlways(l) == TRUE

\* `with self.lock:` can be entered.
CanAcquire(l) == l = "free"

\* ------------------------------------------------------ external commands

\* An invocation with the results `rs` ends in one of them; a result marked
\* as a fault counts against MaxFaults.
Outcome(rs, r) ==
  /\ r \in rs
  /\ r.fault => faults < MaxFaults
  /\ faults' = IF r.fault THEN faults + 1 ELSE faults

\* What `wg show interfaces` makes get_active_wireguard return with `active`
\* up: the first interface, or None when there is none or the command fails.
get_active_wireguard(active) ==
  {[value |-> active, fault |-> FALSE]}
    \cup (IF active = NoIface THEN {} ELSE {[value |-> NoIface, fault |-> TRUE]})

\* wireguard_up(config) with `active` up: success or failure (non-zero exit
\* or timeout), and the interface then up.  At most one interface is up at
\* a time, so bringing one up beside another fails.
wireguard_up(active, config) ==
  IF active = NoIface
  THEN {[ok |-> TRUE, iface |-> config, fault |-> FALSE],
        [ok |-> FALSE, iface |-> active, fault |-> TRUE]}
  ELSE {[ok |-> FALSE, iface |-> active, fault |-> FALSE]}

\* wireguard_down(interface), likewise.
wireguard_down(active, interface) ==
  IF active = interface /\ interface # NoIface
  THEN {[ok |-> TRUE, iface |-> NoIface, fault |-> FALSE],
        [ok |-> FALSE, iface |-> active, fault |-> TRUE]}
  ELSE {[ok |-> FALSE, iface |-> active, fault |-> FALSE]}

\* ----------------------------------------------------- queue tool calls

\* history[-10:] keeps this many entries.
RecentWindow == 10

Min(S) == CHOOSE x \in S : \A y \in S : x <= y

\* dataclasses.asdict(job).
asdict(ref) == jobs[ref]

\* s[:n]: the oldest entries instead of the newest.
FirstN(s, n) == IF Len(s) <= n THEN s ELSE SubSeq(s, 1, n)

\* s[-n:].
LastN(s, n) == IF Len(s) <= n THEN s ELSE SubSeq(s, Len(s) - n + 1, Len(s))

\* A remove that removes nothing.
NotRemoved(s, i) == s

\* s without its element at position i.
RemoveAt(s, i) == SubSeq(s, 1, i - 1) \o SubSeq(s, i + 1, Len(s))

\* A worker start that does not look at self.running.
StartsWorkerAlways(r) == TRUE

\* `if not self.running` of _ensure_worker.
StartsWorker(r) == ~r

\* An id counter that is not advanced.
NextIdSame(n) == n

\* self.next_id += 1.
NextId(n) == n + 1

FreeSlots == {t \in Threads : threads[t].pc = "unstarted"}

\* An _ensure_worker that starts nothing.
never_start_worker == UNCHANGED <<running, threads>>

\* _ensure_worker: start the worker thread unless one is running.
ensure_worker ==
  IF StartsWorker(running)
  THEN /\ running' = TRUE
       /\ threads' = IF FreeSlots = {} THEN threads
                     ELSE [threads EXCEPT ![Min(FreeSlots)].pc = "loop"]
  ELSE UNCHANGED <<running, threads>>

\* DownloadQueue.add, called by queue_download: the whole `with self.lock:`
\* block, which no other holder of the lock can interleave with.  At most
\* `cap` jobs are ever created.
AddWithin(req, cap) ==
  /\ call.op = "none"
  /\ CanAcquire(lock)
  /\ Len(jobs) < cap
  /\ jobs' = Append(jobs, DownloadJob(next_id, req))
  /\ next_id' = NextId(next_id)
  /\ queue' = Append(queue, Len(jobs) + 1)
  /\ ensure_worker
  /\ UNCHANGED <<history, current_job, lock, call, env_vars, hist_vars>>
  /\ UNCHANGED sel

Add(req) == AddWithin(req, MaxJobs)

\* The positions in the backlog of the jobs with id job_id.
CancelHits(job_id) == {i \in 1..Len(queue) : jobs[queue[i]].id = job_id}

\* A cancel that marks the job failed without the error text.
CancelledJobSilent(job) == [job EXCEPT !.status = "failed", !.completed_at = "ts"]

\* The job fields cancel writes.
CancelledJob(job) ==
  [job EXCEPT !.status = "failed", !.error = <<"Cancelled by user">>,
              !.completed_at = "ts"]

\* DownloadQueue.cancel, called by queue_cancel; the lock is released when
\* the call returns (Return).  deque.remove(job) removes the first element
\* equal to job, by the dataclass's field equality.
Cancel(job_id) ==
  /\ call.op = "none"
  /\ CanAcquire(lock)
  /\ lock' = "client"
  /\ IF CancelHits(job_id) # {}
     THEN LET ref == queue[Min(CancelHits(job_id))]
              after == [jobs EXCEPT ![ref] = CancelledJob(jobs[ref])]
              k == Min({i \in 1..Len(queue) : after[queue[i]] = after[ref]})
          IN /\ jobs' = after
             /\ queue' = RemoveAt(queue, k)
             /\ history' = Append(history, ref)
             /\ published' = published \cup {ref}
             /\ call' = [NoCall EXCEPT !.op = "cancel", !.arg = job_id, !.ret = "True"]
     ELSE /\ call' = [NoCall EXCEPT !.op = "cancel", !.arg = job_id, !.ret = "False"]
          /\ UNCHANGED <<jobs, queue, history, published>>
  /\ UNCHANGED <<current_job, next_id, running, threads, env_vars, dequeued, ext_touched>>
  /\ UNCHANGED sel

\* A clear that keeps the newest entry.
clearedButLast(h) == LastN(h, 1)

\* self.history.clear().
cleared(h) == <<>>

\* DownloadQueue.clear_history, called by queue_clear_history; the call
\* record keeps how many entries the history held.
ClearHistory ==
  /\ call.op = "none"
  /\ CanAcquire(lock)
  /\ lock' = "client"
  /\ history' = cleared(history)
  /\ call' = [NoCall EXCEPT !.op = "clear_history", !.arg = Len(history)]
  /\ UNCHANGED <<queue, current_job, next_id, running, jobs, threads,
                 env_vars, hist_vars>>
  /\ UNCHANGED sel

\* The backlog and the history window of a snapshot.
SnapshotLists ==
  [queued |-> [i \in 1..Len(queue) |-> asdict(queue[i])],
   recent_history |-> [i \in 1..Len(LastN(history, RecentWindow)) |->
                         asdict(LastN(history, RecentWindow)[i])]]

\* DownloadQueue.get_status, called by queue_status.  asdict copies the
\* in-flight job field by field while the worker, which writes the job's
\* fields without the lock, may run: the copy reads status (with the fields
\* before it), then started_at, then completed_at, error and result.
GetStatus ==
  /\ call.op = "none"
  /\ CanAcquire(lock)
  /\ lock' = "client"
  /\ IF current_job = 0
     THEN call' = [NoCall EXCEPT !.op = "status",
                     !.snap = [current |-> <<>>,
                               queued |-> SnapshotLists.queued,
                               recent_history |-> SnapshotLists.recent_history]]
     ELSE call' = [NoCall EXCEPT !.op = "status", !.arg = current_job,
                     !.step = "started_at",
                     !.snap = [NoSnapshot EXCEPT !.current =
                       << [asdict(current_job) EXCEPT !.started_at = Null,
                             !.completed_at = Null, !.error = NoStr, !.result = NoStr] >>]]
  /\ UNCHANGED <<queue, history, current_job, next_id, running, jobs, threads,
                 env_vars, hist_vars>>
  /\ UNCHANGED sel

StatusReadStartedAt ==
  /\ call.op = "status"
  /\ call.step = "started_at"
  /\ call' = [call EXCEPT !.step = "rest",
                !.snap.current[1].started_at = jobs[call.arg].started_at]
  /\ UNCHANGED <<queue_vars, jobs, threads, env_vars, hist_vars>>
  /\ UNCHANGED sel

StatusReadRest ==
  /\ call.op = "status"
  /\ call.step = "rest"
  /\ call' = [call EXCEPT !.step = "done",
                !.snap = [current |->
                            << [call.snap.current[1] EXCEPT
                                  !.completed_at = jobs[call.arg].completed_at,
                                  !.error = jobs[call.arg].error,
                                  !.result = jobs[call.arg].result] >>,
                          queued |-> SnapshotLists.queued,
                          recent_history |-> SnapshotLists.recent_history]]
  /\ UNCHANGED <<queue_vars, jobs, threads, env_vars, hist_vars>>
  /\ UNCHANGED sel

\* The tool call returns to the client: the `with self.lock:` block is left.
Return ==
  /\ call.op # "none"
  /\ call.step = "done"
  /\ call' = NoCall
  /\ lock' = "free"
  /\ UNCHANGED <<queue, history, current_job, next_id, running, jobs, threads,
                 env_vars, hist_vars>>
  /\ UNCHANGED sel

\* ------------------------------------------------------ the worker thread

Local(t) == threads[t]

Goto(t, pc) == threads' = [threads EXCEPT ![t].pc = pc]

\* deque.pop(): the newest element is taken instead of the oldest.
popright(q) == [job |-> q[Len(q)], rest |-> SubSeq(q, 1, Len(q) - 1)]

\* q[0]: the oldest element is read and stays in the backlog.
peek(q) == [job |-> Head(q), rest |-> q]

\* deque.popleft(): the element taken and the rest.
popleft(q) == [job |-> Head(q), rest |-> Tail(q)]

\* _worker, first critical section: take the head of the backlog.
WorkerPop(t) ==
  /\ Local(t).pc = "loop"
  /\ running
  /\ CanAcquire(lock)
  /\ queue # <<>>
  /\ lock' = "worker"
  /\ queue' = popleft(queue).rest
  /\ threads' = [threads EXCEPT ![t] = FreshLocals("popped", popleft(queue).job)]
  /\ dequeued' = Append(dequeued, popleft(queue).job)
  /\ UNCHANGED <<history, current_job, next_id, running, jobs, call, env_vars,
                 published, ext_touched>>
  /\ UNCHANGED sel

\* A worker that keeps the lock while it processes the job.
WorkerSetCurrentKeepingLock(t) ==
  /\ Local(t).pc = "popped"
  /\ current_job' = Local(t).job
  /\ Goto(t, "process")
  /\ UNCHANGED <<queue, history, next_id, running, lock, jobs, call, env_vars, hist_vars>>
  /\ UNCHANGED sel

\* self.current_job = job, and the lock is released.
WorkerSetCurrent(t) ==
  /\ Local(t).pc = "popped"
  /\ current_job' = Local(t).job
  /\ lock' = "free"
  /\ Goto(t, "process")
  /\ UNCHANGED <<queue, history, next_id, running, jobs, call, env_vars, hist_vars>>
  /\ UNCHANGED sel

\* The backlog is empty: the lock is released and the worker sleeps.
WorkerIdle(t) ==
  /\ Local(t).pc = "loop"
  /\ running
  /\ CanAcquire(lock)
  /\ queue = <<>>
  /\ Goto(t, "idle")
  /\ UNCHANGED <<queue_vars, jobs, call, env_vars, hist_vars>>
  /\ UNCHANGED sel

\* threading.Event().wait(1) is over.
WorkerWake(t) ==
  /\ Local(t).pc = "idle"
  /\ Goto(t, "loop")
  /\ UNCHANGED <<queue_vars, jobs, call, env_vars, hist_vars>>
  /\ UNCHANGED sel

\* _process_job: job.status = DownloadStatus.DOWNLOADING.
ProcessSetDownloading(t) ==
  /\ Local(t).pc = "process"
  /\ jobs' = [jobs EXCEPT ![Local(t).job].status = "downloading"]
  /\ Goto(t, "started_at")
  /\ UNCHANGED <<queue_vars, call, env_vars, hist_vars>>
  /\ UNCHANGED sel

\* job.started_at = datetime.now().isoformat().
ProcessSetStartedAt(t) ==
  /\ Local(t).pc = "started_at"
  /\ jobs' = [jobs EXCEPT ![Local(t).job].started_at = "ts"]
  /\ Goto(t, "mkdir")
  /\ UNCHANGED <<queue_vars, call, env_vars, hist_vars>>
  /\ UNCHANGED sel

\* A _process_job without its `except Exception`: the exception ends the
\* worker thread.
OnExceptionUncaught == "dead"

\* Where an exception raised inside _download_video_internal continues:
\* at `except Exception as e:` of _process_job.
OnException == "set_failed"

\* output_path.mkdir: it returns, or raises (the directory cannot be made).
mkdir == {[raised |-> FALSE, fault |-> FALSE], [raised |-> TRUE, fault |-> TRUE]}

\* _download_video_internal: output_path.mkdir, before the try block: an
\* exception leaves the function at once.
Mkdir(t) ==
  /\ Local(t).pc = "mkdir"
  /\ \E r \in mkdir :
       /\ Outcome(mkdir, r)
       /\ threads' = IF r.raised
                     THEN [threads EXCEPT ![t].pc = OnException, ![t].exc = <<"OSError">>]
                     ELSE [threads EXCEPT ![t].pc = "query_vpn"]
  /\ UNCHANGED <<queue_vars, jobs, call, iface, hist_vars>>
  /\ UNCHANGED sel

\* A download that brings the VPN up whatever it was asked and found.
WantsVpnAlways(auto_vpn, original_vpn) == TRUE

\* `if auto_vpn and not original_vpn`.
WantsVpn(auto_vpn, original_vpn) == auto_vpn /\ original_vpn = NoIface

\* country = detect_url_country(url) and select_best_config(country,
\* preferred_city) for the urls and cities of the requests, as tables.
PreferredCities == {r.preferred_city : r \in Requests}

url_country == [u \in Urls |-> detect_url_country(u)]

best_config ==
  [u \in Urls |-> [c \in PreferredCities |-> select_best_config(url_country[u], c)]]

\* original_vpn = get_active_wireguard(), then the VPN decision up to the
\* call of wireguard_up.
QueryVpn(t) ==
  /\ Local(t).pc = "query_vpn"
  /\ \E q \in get_active_wireguard(iface) :
       /\ Outcome(get_active_wireguard(iface), q)
       /\ LET job == jobs[Local(t).job]
              country == url_country[job.url]
              config == best_config[job.url][job.preferred_city]
              l == [Local(t) EXCEPT !.original_vpn = q.value, !.at_start = iface]
          IN threads' = [threads EXCEPT ![t] =
               IF WantsVpn(job.auto_vpn, q.value)
               THEN IF country # NoStr
                    THEN IF config # NoStr
                         THEN [l EXCEPT !.pc = "vpn_up", !.config = config]
                         ELSE [l EXCEPT !.pc = "run_fetch", !.vpn_msg = "No VPN config found"]
                    ELSE [l EXCEPT !.pc = "run_fetch", !.vpn_msg = "No VPN needed for this URL"]
               ELSE [l EXCEPT !.pc = "run_fetch",
                              !.vpn_msg = IF q.value # NoIface THEN "Using existing VPN"
                                          ELSE "Proceeding without VPN"]]
  /\ ext_touched' = FALSE
  /\ UNCHANGED <<queue_vars, jobs, call, iface, published, dequeued>>
  /\ UNCHANGED sel

\* success, msg = wireguard_up(config).
VpnUp(t) ==
  /\ Local(t).pc = "vpn_up"
  /\ \E r \in wireguard_up(iface, Local(t).config) :
       /\ Outcome(wireguard_up(iface, Local(t).config), r)
       /\ iface' = r.iface
       /\ threads' = [threads EXCEPT ![t].pc = "run_fetch",
                        ![t].vpn_started = r.ok,
                        ![t].vpn_msg = IF r.ok THEN "Started VPN" ELSE "VPN start failed"]
  /\ UNCHANGED <<queue_vars, jobs, call, hist_vars>>
  /\ UNCHANGED sel

\* subprocess.run(cmd, ..., timeout=600) is called: the fetch is running.
RunFetch(t) ==
  /\ Local(t).pc = "run_fetch"
  /\ Goto(t, "fetching")
  /\ UNCHANGED <<queue_vars, jobs, call, env_vars, hist_vars>>
  /\ UNCHANGED sel

\* How the fetch ends: exit code 0, another exit code, TimeoutExpired, or
\* another exception of subprocess.run.
yt_dlp ==
  {[outcome |-> "exit0", fault |-> FALSE], [outcome |-> "nonzero", fault |-> TRUE],
   [outcome |-> "timeout", fault |-> TRUE], [outcome |-> "exception", fault |-> TRUE]}

\* What _download_video_internal returns after the fetch ended with
\* `outcome`: f"{vpn_msg}\n\n..." with the text of the outcome.  The model
\* keeps the text that follows the VPN line.
ReturnValue(vpn_msg, outcome) ==
  IF vpn_msg = Null THEN NoStr
  ELSE CASE outcome = "exit0" -> <<"Download successful!">>
         [] outcome = "nonzero" -> <<"Download failed:">>
         [] outcome = "timeout" -> <<"Download timed out after 10 minutes">>
         [] outcome = "exception" -> <<"Error:">>

\* What _download_video_internal raises after the fetch ended with
\* `outcome`: nothing, every outcome is turned into a return value.
Raised(outcome) == NoStr

\* The fetch ends.
FetchEnds(t) ==
  /\ Local(t).pc = "fetching"
  /\ \E r \in yt_dlp :
       /\ Outcome(yt_dlp, r)
       /\ threads' = [threads EXCEPT ![t].pc = "finally", ![t].outcome = r.outcome,
                        ![t].retval = IF Raised(r.outcome) = NoStr
                                      THEN ReturnValue(Local(t).vpn_msg, r.outcome)
                                      ELSE NoStr,
                        ![t].exc = Raised(r.outcome)]
  /\ UNCHANGED <<queue_vars, jobs, call, iface, hist_vars>>
  /\ UNCHANGED sel

\* A finally block that never tears the VPN down.
ShouldTearDownNever(vpn_started, original_vpn) == FALSE

\* `if vpn_started and not original_vpn` of the finally block.
ShouldTearDown(vpn_started, original_vpn) == vpn_started /\ original_vpn = NoIface

\* Where _process_job continues when _download_video_internal is left.
AfterDownload(l) == IF l.exc = NoStr THEN "set_completed" ELSE OnException

\* finally: active = get_active_wireguard() when this job started the VPN.
Finally(t) ==
  /\ Local(t).pc = "finally"
  /\ IF ShouldTearDown(Local(t).vpn_started, Local(t).original_vpn)
     THEN \E q \in get_active_wireguard(iface) :
            /\ Outcome(get_active_wireguard(iface), q)
            /\ threads' = [threads EXCEPT ![t].active = q.value, ![t].td_queried = TRUE,
                             ![t].pc = IF q.value # NoIface THEN "vpn_down"
                                       ELSE AfterDownload(Local(t))]
     ELSE /\ Goto(t, AfterDownload(Local(t)))
          /\ UNCHANGED faults
  /\ UNCHANGED <<queue_vars, jobs, call, iface, hist_vars>>
  /\ UNCHANGED sel

\* wireguard_down(active); its result is ignored.
VpnDown(t) ==
  /\ Local(t).pc = "vpn_down"
  /\ \E r \in wireguard_down(iface, Local(t).active) :
       /\ Outcome(wireguard_down(iface, Local(t).active), r)
       /\ iface' = r.iface
       /\ threads' = [threads EXCEPT ![t].pc = AfterDownload(Local(t)),
                        ![t].down_on = Local(t).active, ![t].down_ok = r.ok]
  /\ UNCHANGED <<queue_vars, jobs, call, hist_vars>>
  /\ UNCHANGED sel

\* _process_job: job.status = DownloadStatus.COMPLETED.
ProcessSetCompleted(t) ==
  /\ Local(t).pc = "set_completed"
  /\ jobs' = [jobs EXCEPT ![Local(t).job].status = "completed"]
  /\ Goto(t, "set_result")
  /\ UNCHANGED <<queue_vars, call, env_vars, hist_vars>>
  /\ UNCHANGED sel

\* job.result = result.
ProcessSetResult(t) ==
  /\ Local(t).pc = "set_result"
  /\ jobs' = [jobs EXCEPT ![Local(t).job].result = Local(t).retval]
  /\ Goto(t, "set_completed_at")
  /\ UNCHANGED <<queue_vars, call, env_vars, hist_vars>>
  /\ UNCHANGED sel

\* except Exception as e: job.status = DownloadStatus.FAILED.
ProcessSetFailed(t) ==
  /\ Local(t).pc = "set_failed"
  /\ jobs' = [jobs EXCEPT ![Local(t).job].status = "failed"]
  /\ Goto(t, "set_error")
  /\ UNCHANGED <<queue_vars, call, env_vars, hist_vars>>
  /\ UNCHANGED sel

\* job.error = str(e).
ProcessSetError(t) ==
  /\ Local(t).pc = "set_error"
  /\ jobs' = [jobs EXCEPT ![Local(t).job].error = Local(t).exc]
  /\ Goto(t, "set_completed_at")
  /\ UNCHANGED <<queue_vars, call, env_vars, hist_vars>>
  /\ UNCHANGED sel

\* finally: job.completed_at = datetime.now().isoformat().
ProcessSetCompletedAt(t) ==
  /\ Local(t).pc = "set_completed_at"
  /\ jobs' = [jobs EXCEPT ![Local(t).job].completed_at = "ts"]
  /\ Goto(t, "publish")
  /\ UNCHANGED <<queue_vars, call, env_vars, hist_vars>>
  /\ UNCHANGED sel

\* _worker, second critical section: self.history.append(job).
WorkerPublish(t) ==
  /\ Local(t).pc = "publish"
  /\ CanAcquire(lock)
  /\ lock' = "worker"
  /\ history' = Append(history, Local(t).job)
  /\ published' = published \cup {Local(t).job}
  /\ Goto(t, "appended")
  /\ UNCHANGED <<queue, current_job, next_id, running, jobs, call, env_vars,
                 dequeued, ext_touched>>
  /\ UNCHANGED sel

\* self.current_job = None, and the lock is released; the job's locals are
\* gone.
WorkerClearCurrent(t) ==
  /\ Local(t).pc = "appended"
  /\ current_job' = 0
  /\ lock' = "free"
  /\ threads' = [threads EXCEPT ![t] = FreshLocals("loop", 0)]
  /\ ext_touched' = FALSE
  /\ UNCHANGED <<queue, history, next_id, running, jobs, call, env_vars,
                 published, dequeued>>
  /\ UNCHANGED sel

Worker(t) ==
  \/ WorkerPop(t) \/ WorkerSetCurrent(t) \/ WorkerIdle(t) \/ WorkerWake(t)
  \/ ProcessSetDownloading(t) \/ ProcessSetStartedAt(t)
  \/ Mkdir(t) \/ QueryVpn(t) \/ VpnUp(t) \/ RunFetch(t) \/ FetchEnds(t)
  \/ Finally(t) \/ VpnDown(t)
  \/ ProcessSetCompleted(t) \/ ProcessSetResult(t)
  \/ ProcessSetFailed(t) \/ ProcessSetError(t) \/ ProcessSetCompletedAt(t)
  \/ WorkerPublish(t) \/ WorkerClearCurrent(t)

\* --------------------------------------------------------- the VPN tools

\* The positions of a worker that is inside _download_video_internal after
\* its first query of the active interface, or has left it and not yet
\* finished with the job.
InJob ==
  {"vpn_up", "run_fetch", "fetching", "finally", "vpn_down", "set_completed",
   "set_result", "set_failed", "set_error", "set_completed_at", "publish",
   "appended"}

\* A VPN tool changed the interface from a to b while a job is under way.
Touches(a, b) == a # b /\ \E t \in Threads : threads[t].pc \in InJob

\* What start_wireguard is called with: config_name, country, city.
StartArgs ==
  { [config_name |-> <<"w","g","0">>, country |-> NoStr, city |-> NoStr],
    [config_name |-> <<"n","o","p","e">>, country |-> NoStr, city |-> NoStr],
    [config_name |-> NoStr, country |-> <<"u","s">>, city |-> NoStr],
    [config_name |-> NoStr, country |-> NoStr, city |-> NoStr] }

\* The config start_wireguard selects, or none when it returns a message.
StartConfig(a) ==
  IF a.config_name # NoStr
  THEN IF a.config_name \in WIREGUARD_DIR THEN a.config_name ELSE NoStr
  ELSE select_best_config(a.country, a.city)

\* start_wireguard: it returns early when an interface is reported active
\* or no config is found, and calls wireguard_up(config_path) otherwise.
StartWireguard(a) ==
  /\ \E q \in get_active_wireguard(iface) :
       /\ ~q.fault
       /\ q.value = NoIface
  /\ StartConfig(a) # NoStr
  /\ \E r \in wireguard_up(iface, StartConfig(a)) :
       /\ Outcome(wireguard_up(iface, StartConfig(a)), r)
       /\ iface' = r.iface
       /\ ext_touched' = (ext_touched \/ Touches(iface, r.iface))
  /\ UNCHANGED <<queue_vars, jobs, threads, call, published, dequeued>>
  /\ UNCHANGED sel

\* stop_wireguard: active = get_active_wireguard(), and wireguard_down(active)
\* when an interface is reported.
StopWireguard ==
  /\ \E q \in get_active_wireguard(iface) :
       /\ ~q.fault
       /\ q.value # NoIface
       /\ \E r \in wireguard_down(iface, q.value) :
            /\ Outcome(wireguard_down(iface, q.value), r)
            /\ iface' = r.iface
            /\ ext_touched' = (ext_touched \/ Touches(iface, r.iface))
  /\ UNCHANGED <<queue_vars, jobs, threads, call, published, dequeued>>
  /\ UNCHANGED sel

\* ---------------------------------------------------------- specification

\* The clients of the queue tools and the worker.
Next ==
  \/ \E req \in Requests : Add(req)
  \/ \E job_id \in 1..(MaxJobs + 1) : Cancel(job_id)
  \/ ClearHistory
  \/ GetStatus
  \/ StatusReadStartedAt
  \/ StatusReadRest
  \/ Return
  \/ \E t \in Threads : Worker(t)

Spec == Init /\ [][Next]_vars

\* Submissions, the worker, and the clients of the VPN tools, which change
\* the active interface while jobs are processed.
VpnNext ==
  \/ \E req \in Requests : Add(req)
  \/ \E t \in Threads : Worker(t)
  \/ \E a \in StartArgs : StartWireguard(a)
  \/ StopWireguard

VpnSpec == Init /\ [][VpnNext]_vars

\* ------------------------------------------------------------ properties

Terminal == {"completed", "failed"}

\* The ids of the job dictionaries in a list of a snapshot.
Ids(dicts) == {dicts[i].id : i \in 1..Len(dicts)}

\* A queue_status call has its snapshot and has not returned yet.
SnapshotTaken == call.op = "status" /\ call.step = "done"

\* The workers that hold a job: taken from the backlog, not yet released.
Holders == {t \in Threads : threads[t].job # 0}

\* The workers whose fetch is running.
Fetching == {t \in Threads : threads[t].pc = "fetching"}

\* C1: at most one job is in flight and at most one fetch runs at any time:
\* no two workers hold a job, no two fetches run, the job a worker processes
\* is the one in the in-flight slot, and the slot holds nothing else.
OneDownloadAtATime ==
  /\ Cardinality(Fetching) <= 1
  /\ Cardinality(Holders) <= 1
  /\ \A t \in Holders : threads[t].pc # "popped" => current_job = threads[t].job
  /\ current_job # 0 => \E t \in Holders : threads[t].job = current_job

\* C1 at work: a fetch is running while another job waits in the backlog.
FetchWhileJobWaits == Fetching # {} /\ queue # <<>>

\* C2: jobs are taken in submission order.  The backlog is in increasing id
\* order; when a job has been taken from the backlog, every job with a
\* smaller id had been moved to the history before; and a snapshot shows the
\* backlog in increasing id order, behind the in-flight job.
FifoOrder ==
  /\ \A i, j \in 1..Len(queue) : i < j => jobs[queue[i]].id < jobs[queue[j]].id
  /\ \A i \in 1..Len(dequeued) : \A a \in 1..Len(jobs) :
       jobs[a].id < jobs[dequeued[i]].id => a \in published
  /\ SnapshotTaken =>
       /\ \A i, j \in 1..Len(call.snap.queued) :
            i < j => call.snap.queued[i].id < call.snap.queued[j].id
       /\ \A c \in Ids(call.snap.current) : \A q \in Ids(call.snap.queued) : c < q

\* C2 at work: the second job was taken after the worker had finished the
\* first.
SecondJobTakenAfterFirst ==
  /\ Len(dequeued) = 2
  /\ jobs[dequeued[1]].status = "completed"
  /\ jobs[dequeued[1]].id < jobs[dequeued[2]].id

\* C3: a snapshot shows no job in two of its lists (in flight, backlog,
\* history) and no job twice in one list; and whenever the lock is free no
\* job is in two of the slot, the backlog and the history.
SnapshotDisjoint ==
  /\ SnapshotTaken =>
       /\ Ids(call.snap.current) \cap Ids(call.snap.queued) = {}
       /\ Ids(call.snap.current) \cap Ids(call.snap.recent_history) = {}
       /\ Ids(call.snap.queued) \cap Ids(call.snap.recent_history) = {}
       /\ Cardinality(Ids(call.snap.queued)) = Len(call.snap.queued)
       /\ Cardinality(Ids(call.snap.recent_history)) = Len(call.snap.recent_history)
  /\ lock = "free" =>
       /\ Range(queue) \cap Range(history) = {}
       /\ current_job \notin Range(queue) \cup Range(history)

\* C3 at work: a snapshot shows a job in flight and another in the history.
SnapshotOfBusyQueue ==
  /\ SnapshotTaken
  /\ call.snap.current # <<>>
  /\ call.snap.recent_history # <<>>

\* What C4 says of a cancel(job_id) step.
CancelEffect(job_id) ==
  LET hits == {i \in 1..Len(queue) : jobs[queue[i]].id = job_id}
  IN IF hits # {}
     THEN LET ref == queue[Min(hits)]
          IN /\ call'.ret = "True"
             /\ \A i \in 1..Len(queue') : jobs'[queue'[i]].id # job_id
             /\ Len(queue') = Len(queue) - 1
             /\ Range(queue') = Range(queue) \ {ref}
             /\ jobs'[ref].status = "failed"
             /\ jobs'[ref].error = <<"Cancelled by user">>
             /\ jobs'[ref].completed_at # Null
             /\ history' = Append(history, ref)
             /\ \A r \in (1..Len(jobs)) \ {ref} : jobs'[r] = jobs[r]
             /\ UNCHANGED current_job
     ELSE /\ call'.ret = "False"
          /\ UNCHANGED <<queue, current_job, history, jobs>>

\* C4: cancelling a job that is in the backlog removes it from the backlog,
\* marks it failed with the error "Cancelled by user" and a completion time,
\* appends it to the history and returns true; cancelling any other id (in
\* flight, finished, unknown) returns false and leaves the backlog, the
\* in-flight slot, the history and every job unchanged.
CancelOnlyQueued ==
  [][\A job_id \in 1..(MaxJobs + 1) : Cancel(job_id) => CancelEffect(job_id)]_vars

\* C4 at work: a cancel has returned true for a job now in the history, and
\* the other job is in flight.
CancelledWhileBusy ==
  /\ call.op = "cancel"
  /\ call.ret = "True"
  /\ current_job # 0
  /\ \E i \in 1..Len(history) : jobs[history[i]].id = call.arg

\* C5: in every snapshot, a job shown completed or failed has a completion
\* time and exactly one of result and error.
TerminalJobsAreWhole ==
  SnapshotTaken =>
    \A list \in {call.snap.current, call.snap.queued, call.snap.recent_history} :
      \A i \in 1..Len(list) :
        list[i].status \in Terminal =>
          /\ list[i].completed_at # Null
          /\ (list[i].result # NoStr) # (list[i].error # NoStr)

\* The fetch outcomes that are failures.
FetchFailures == {"nonzero", "timeout", "exception"}

\* C6: a job whose fetch ended with a non-zero exit code, a timeout or an
\* exception is in the history as failed, with an error and no result.
FailedFetchEndsFailed ==
  \A t \in Threads :
    (threads[t].pc = "appended" /\ threads[t].outcome \in FetchFailures) =>
      /\ jobs[threads[t].job].status = "failed"
      /\ jobs[threads[t].job].error # NoStr
      /\ jobs[threads[t].job].result = NoStr

\* The positions of a worker that has left _download_video_internal and
\* still holds the job.
Returned ==
  {"set_completed", "set_result", "set_failed", "set_error", "set_completed_at",
   "publish", "appended"}

\* The job of worker t brought the VPN up, and none was active before.
SelfStarted(t) == threads[t].vpn_started /\ threads[t].original_vpn = NoIface

\* C7 as stated: once a job that brought the VPN up itself has left the
\* download, the active interface was queried and bring-down was invoked.
TearDownAlwaysInvoked ==
  \A t \in Threads :
    (threads[t].pc \in Returned /\ SelfStarted(t)) =>
      /\ threads[t].td_queried
      /\ threads[t].down_on # NoIface

\* C7: once a job that brought the VPN up itself has left the download
\* (for every outcome of the fetch, before its status is terminal and before
\* the next job is taken), the active interface was queried and, when the
\* query reported one, bring-down was invoked on it; and when the job is
\* published, bring-down succeeded and no VPN tool changed the interface
\* during the job, no interface is active.
TearDownWhenFound ==
  \A t \in Threads :
    /\ (threads[t].pc \in Returned /\ SelfStarted(t)) =>
         /\ threads[t].td_queried
         /\ threads[t].active # NoIface => threads[t].down_on = threads[t].active
         /\ threads[t].pc \in {"set_completed", "set_failed"} =>
              jobs[threads[t].job].status \notin Terminal
    /\ (threads[t].pc = "appended" /\ SelfStarted(t) /\ threads[t].down_ok
          /\ ~ext_touched) => iface = NoIface
    /\ (threads[t].job # 0 /\ threads[t].pc \notin Returned) =>
         jobs[threads[t].job].status \notin Terminal

\* C7 at work: the fetch of a job that brought the VPN up raised, the
\* interface was brought down, and no interface is active.
TornDownAfterException ==
  \E t \in Threads :
    /\ threads[t].pc = "appended"
    /\ SelfStarted(t)
    /\ threads[t].outcome = "exception"
    /\ threads[t].down_ok
    /\ threads[t].down_on # NoIface
    /\ iface = NoIface

\* C8: clearing the history empties it and leaves the backlog, the in-flight
\* slot, the id counter, the jobs and the worker unchanged.
ClearOnlyHistory ==
  [][ClearHistory =>
       /\ history' = <<>>
       /\ UNCHANGED <<queue, current_job, next_id, running, jobs, threads>>]_vars

\* C8 at work: a history that held entries was cleared while a fetch runs.
ClearedWhileFetching ==
  /\ call.op = "clear_history"
  /\ call.arg > 0
  /\ history = <<>>
  /\ current_job # 0
  /\ Fetching # {}

\* C9: ids are unique and increase in creation order, and the counter is
\* above every id issued, whatever was cancelled or completed in between.
IdsIncrease ==
  /\ \A i, j \in 1..Len(jobs) : i < j => jobs[i].id < jobs[j].id
  /\ \A i \in 1..Len(jobs) : jobs[i].id < next_id

\* C9 at work: a job was submitted after another had reached the history.
SubmittedAfterFinished ==
  /\ Len(jobs) = 2
  /\ jobs[1].status \in Terminal
  /\ jobs[2].status = "queued"
  /\ jobs[1].id < jobs[2].id

\* The worker thread is scheduled again and again, also when clients take
\* the lock in between, and a tool call that holds the lock returns.
FairSpec ==
  /\ Spec
  /\ \A t \in Threads : SF_vars(Worker(t))
  /\ WF_vars(StatusReadStartedAt)
  /\ WF_vars(StatusReadRest)
  /\ WF_vars(Return)

\* C10: every submitted job eventually is in a terminal status and has been
\* moved to the history, whatever happened to the jobs before it.
EveryJobFinishes ==
  \A i \in 1..MaxJobs :
    (Len(jobs) >= i) ~> (i \in published /\ jobs[i].status \in Terminal
                           /\ jobs[i].completed_at # Null)

\* C10 at work: a job failed with an exception and a later job completed.
CompletedAfterFailure ==
  \E i, j \in 1..Len(jobs) :
    /\ i < j
    /\ jobs[i].error = <<"OSError">>
    /\ j \in published
    /\ jobs[j].status = "completed"

\* The positions of a worker at or inside an external invocation: mkdir,
\* the active-interface queries, bring-up, the fetch, bring-down.
InExternalCall ==
  {"mkdir", "query_vpn", "vpn_up", "run_fetch", "fetching", "finally", "vpn_down"}

\* C11: while the worker is at or inside an external invocation it does not
\* hold the lock, and the lock is free unless a client's tool call holds it:
\* the worker holds the lock only between taking a job and setting the slot,
\* and between appending to the history and clearing the slot.
LockFreeDuringExternalCalls ==
  /\ \A t \in Threads :
       threads[t].pc \in InExternalCall =>
         /\ lock # "worker"
         /\ call.op = "none" => lock = "free"
  /\ lock = "worker" => \E t \in Threads : threads[t].pc \in {"popped", "appended"}

\* C11 at work: a cancel went through while the fetch of another job runs.
CancelDuringFetch ==
  /\ Fetching # {}
  /\ lock = "client"
  /\ call.op = "cancel"
  /\ call.ret = "True"

\* ------------------------------------- selection over bounded directories

\* The largest directory a selection is asked on.
MaxConfigs == 3

\* File stems a directory may hold: with and without a location, one a
\* prefix of another, one without the dash after the city.
ConfigNames ==
  { <<"g","b","-","l","o","n","-","1">>,
    <<"g","b","-","l","o","n","-","1","-","b">>,
    <<"g","b","-","m","a","n","-","1">>,
    <<"u","s","-","n","y","c","-","1">>,
    <<"g","b","-","l","o","n">>,
    <<"w","g","0">> }

Directories == {d \in SUBSET ConfigNames : Cardinality(d) <= MaxConfigs}

SelCountries == {NoStr, <<"g","b">>, <<"u","s">>, <<"d","e">>}

SelCities == {NoStr, <<"l","o","n">>, <<"m","a","n">>, <<"n","y","c">>}

SelectInit ==
  /\ QueueInit
  /\ sel \in {[dir |-> d, country |-> c, preferred_city |-> p, out |-> NoStr,
               done |-> FALSE] :
                d \in Directories, c \in SelCountries, p \in SelCities}

\* select_best_config(country, preferred_city) with WIREGUARD_DIR holding
\* sel.dir.
Select ==
  /\ ~sel.done
  /\ sel' = [sel EXCEPT !.done = TRUE,
               !.out = select_best_config_in(listing(sel.dir), sel.country,
                                             sel.preferred_city)]
  /\ UNCHANGED <<queue_vars, jobs, threads, call, env_vars, hist_vars>>

SelectNext == Select

SelectSpec == SelectInit /\ [][SelectNext]_vars

\* The positions in the listing of sel.dir of the configs of sel.country,
\* and among them of those of sel.preferred_city.
OfCountry ==
  {i \in 1..Len(listing(sel.dir)) :
     parse_config_location(listing(sel.dir)[i]).country = sel.country}

OfCity ==
  {i \in OfCountry :
     parse_config_location(listing(sel.dir)[i]).city = sel.preferred_city}

\* C12: the listing holds the directory's configs in the lexicographic order
\* of their file names, and the selection is: none without a country; none
\* when no config is of the country; the first config in the listing of the
\* country and the preferred city when there is one (the only one when there
\* is exactly one); the first config of the country otherwise.
SelectionIsFirstMatch ==
  LET L == listing(sel.dir)
  IN /\ Range(L) = sel.dir /\ Len(L) = Cardinality(sel.dir)
     /\ \A i, j \in 1..Len(L) : i < j => StrLess(L[i] \o conf, L[j] \o conf)
     /\ sel.done =>
          /\ sel.country = NoStr => sel.out = NoStr
          /\ OfCountry = {} => sel.out = NoStr
          /\ (sel.country # NoStr /\ sel.preferred_city # NoStr /\ OfCity # {}) =>
               /\ sel.out = L[Min(OfCity)]
               /\ Cardinality(OfCity) = 1 => \A i \in OfCity : sel.out = L[i]
          /\ (sel.country # NoStr /\ OfCountry # {}
                /\ (sel.preferred_city = NoStr \/ OfCity = {})) =>
               sel.out = L[Min(OfCountry)]

\* C12 at work: the one config of the preferred city was selected, and it
\* is not the first config of the country in the listing.
CityBeatsListingOrder ==
  /\ sel.done
  /\ Cardinality(OfCity) = 1
  /\ Min(OfCity) > Min(OfCountry)
  /\ sel.out = listing(sel.dir)[Min(OfCity)]

\* ------------------------------------------ a history longer than shown

\* The jobs finished before the first state: one fewer than a snapshot
\* shows, so that the history grows past the window.
Preloaded == RecentWindow - 1

\* A job the worker completed earlier in the process's life.
FinishedJob(id) ==
  [DownloadJob(id, [url |-> "youtube", auto_vpn |-> TRUE, preferred_city |-> NoStr])
     EXCEPT !.status = "completed", !.started_at = "ts", !.completed_at = "ts",
            !.result = <<"Download successful!">>]

\* The queue after Preloaded downloads: the worker runs and is idle.
WindowInit ==
  /\ queue = <<>>
  /\ history = [i \in 1..Preloaded |-> i]
  /\ current_job = 0
  /\ next_id = Preloaded + 1
  /\ running = TRUE
  /\ lock = "free"
  /\ jobs = [i \in 1..Preloaded |-> FinishedJob(i)]
  /\ threads = [t \in Threads |->
                  IF t = 1 THEN FreshLocals("loop", 0) ELSE FreshLocals("unstarted", 0)]
  /\ call = NoCall
  /\ iface = NoIface
  /\ faults = 0
  /\ published = 1..Preloaded
  /\ dequeued = [i \in 1..Preloaded |-> i]
  /\ ext_touched = FALSE
  /\ sel = NoSelection

WindowNext ==
  \/ \E req \in Requests : AddWithin(req, Preloaded + MaxJobs)
  \/ \E job_id \in Preloaded..(Preloaded + MaxJobs + 1) : Cancel(job_id)
  \/ ClearHistory
  \/ GetStatus
  \/ StatusReadStartedAt
  \/ StatusReadRest
  \/ Return
  \/ \E t \in Threads : Worker(t)

WindowSpec == WindowInit /\ [][WindowNext]_vars

\* What min(10, n) entries of the history a snapshot has to show.
ShownHistory ==
  LET n == Len(history)
      k == IF n < RecentWindow THEN n ELSE RecentWindow
  IN [i \in 1..k |-> jobs[history[n - k + i]]]

\* C13: a snapshot shows exactly the last min(10, n) entries of the n-entry
\* history, in history order; and a step that is not a clear keeps every
\* entry of the history in place and at most appends to it.
WindowOfFullHistory ==
  /\ [](SnapshotTaken => call.snap.recent_history = ShownHistory)
  /\ [][ClearHistory \/ (/\ Len(history') >= Len(history)
                         /\ SubSeq(history', 1, Len(history)) = history)]_vars

\* C13 at work: a snapshot of a history of more than ten entries shows ten,
\* the oldest left out.
SnapshotOfLongHistory ==
  /\ SnapshotTaken
  /\ Len(history) > RecentWindow
  /\ Len(call.snap.recent_history) = RecentWindow
  /\ call.snap.recent_history[1].id = jobs[history[Len(history) - RecentWindow + 1]].id
  /\ call.snap.recent_history[1].id # jobs[history[1]].id

\* The job dictionaries of the snapshot of the call in progress.
SnapshotDicts ==
  Range(call.snap.current) \cup Range(call.snap.queued)
    \cup Range(call.snap.recent_history)

Unfinished == {"queued", "downloading"}

\* C14: a job that is queued or downloading has neither a result nor an
\* error, in every state and in every snapshot.
UnfinishedJobsAreBare ==
  /\ \A i \in 1..Len(jobs) :
       jobs[i].status \in Unfinished => jobs[i].result = NoStr /\ jobs[i].error = NoStr
  /\ SnapshotTaken =>
       \A d \in SnapshotDicts :
         d.status \in Unfinished => d.result = NoStr /\ d.error = NoStr

CancelMessage == <<"Cancelled by user">>

\* The status of job i changes in this step along an edge of the life cycle.
StatusEdge(i) ==
  \/ /\ jobs[i].status = "queued"
     /\ jobs'[i].status = "downloading"
     /\ current_job = i
     /\ i \notin Range(queue)
     /\ \E t \in Threads :
          /\ ProcessSetDownloading(t)
          /\ threads[t].job = i
          /\ threads'[t].pc = "started_at"
  \/ /\ jobs[i].status = "downloading"
     /\ jobs'[i].status \in Terminal
     /\ jobs'[i].started_at # Null
  \/ /\ jobs[i].status = "queued"
     /\ jobs'[i].status = "failed"
     /\ jobs'[i].error = CancelMessage
     /\ i \in Range(queue)
     /\ \E job_id \in 1..(MaxJobs + 1) : Cancel(job_id)

\* C15: a job is created queued; its status changes only from queued to
\* downloading (by the worker that took it from the backlog, whose next step
\* sets the start time), from downloading to completed or failed, and from
\* queued to failed by a cancel; a terminal status never changes; and a job
\* with the cancellation message was never taken by the worker.
StatusLifeCycle ==
  /\ [][/\ \A i \in 1..Len(jobs) :
             /\ jobs'[i].status # jobs[i].status => StatusEdge(i)
             /\ jobs[i].status \in Terminal => jobs'[i].status = jobs[i].status
        /\ \A i \in (Len(jobs) + 1)..Len(jobs') : jobs'[i].status = "queued"]_vars
  /\ [](\A i \in 1..Len(jobs) :
          /\ (jobs[i].status = "downloading" /\ jobs[i].started_at = Null) =>
               \E t \in Threads : threads[t].job = i /\ threads[t].pc = "started_at"
          /\ jobs[i].error = CancelMessage =>
               /\ i \notin Range(dequeued)
               /\ jobs[i].started_at = Null
               /\ jobs[i].status = "failed")

\* C15 at work: one job went through downloading to completed, the other
\* was cancelled while queued.
CompletedAndCancelled ==
  \E i, j \in 1..Len(jobs) :
    /\ jobs[i].status = "completed"
    /\ jobs[i].started_at # Null
    /\ jobs[j].status = "failed"
    /\ jobs[j].error = CancelMessage

\* The jobs a cancel returned success for.
Cancelled == {i \in 1..Len(jobs) : jobs[i].error = CancelMessage}

\* C16: a job that is no longer in the backlog left it either by the
\* worker's dequeue or by a successful cancel, not both; the worker takes no
\* job twice and the backlog holds none twice; a job that left the backlog
\* is not in it again; a cancelled job is in no worker's hands and not in
\* the in-flight slot; and no job is appended to the history twice.
LeavesBacklogOnce ==
  /\ [](/\ \A i \in 1..Len(jobs) :
             i \notin Range(queue) => (i \in Range(dequeued)) # (i \in Cancelled)
        /\ Range(queue) \cap (Range(dequeued) \cup Cancelled \cup published) = {}
        /\ Cardinality(Range(queue)) = Len(queue)
        /\ Cardinality(Range(dequeued)) = Len(dequeued)
        /\ Cardinality(Range(history)) = Len(history)
        /\ \A i \in Cancelled :
             /\ current_job # i
             /\ \A t \in Threads : threads[t].job # i)
  /\ [][Len(history') > Len(history) =>
          /\ history'[Len(history')] \notin published
          /\ Len(history') = Len(history) + 1]_vars

\* C16 at work: one job was taken by the worker and the other cancelled, and
\* both are in the history.
OneDequeuedOneCancelled ==
  /\ Len(history) = 2
  /\ Len(dequeued) = 1
  /\ Cardinality(Cancelled) = 1
  /\ Range(history) = Range(dequeued) \cup Cancelled

\* Worker t holds a job and is past the first query of the active interface.
PastQuery(t) == threads[t].job # 0 /\ threads[t].pc \in InJob

\* The job of worker t has invoked, or is about to invoke, no bring-up and
\* no bring-down, and the interface is as the job's query found it unless a
\* VPN tool changed it (a job whose mkdir raised made no query).
LeavesVpnAlone(t) ==
  /\ threads[t].config = NoStr
  /\ threads[t].pc \notin {"vpn_up", "vpn_down"}
  /\ ~threads[t].vpn_started
  /\ ~threads[t].td_queried
  /\ threads[t].down_on = NoIface
  /\ (~ext_touched /\ threads[t].exc = NoStr) => iface = threads[t].at_start

\* C17 as stated: a job with auto_vpn false, or one that began while an
\* interface was active, leaves the VPN alone.
NoVpnActionIfActiveOrOff ==
  \A t \in Threads :
    (PastQuery(t) /\ (~jobs[threads[t].job].auto_vpn \/ threads[t].at_start # NoIface))
      => LeavesVpnAlone(t)

\* C17: a job with auto_vpn false, or one whose query of the active
\* interface at its start reported an interface, leaves the VPN alone, for
\* every outcome of the fetch.
NoVpnActionIfReportedOrOff ==
  \A t \in Threads :
    (PastQuery(t) /\ (~jobs[threads[t].job].auto_vpn \/ threads[t].original_vpn # NoIface))
      => LeavesVpnAlone(t)

\* C17 at work: a job with auto_vpn that found an interface active has timed
\* out and is in the history, and the interface is still active.
ExistingVpnKept ==
  \E t \in Threads :
    /\ threads[t].pc = "appended"
    /\ jobs[threads[t].job].auto_vpn
    /\ threads[t].original_vpn # NoIface
    /\ threads[t].outcome = "timeout"
    /\ iface = threads[t].original_vpn

\* C18: bring-up is invoked only while no interface is active, by the worker
\* and by start_wireguard.
BringUpOnlyWhenInactive ==
  [][/\ \A t \in Threads : VpnUp(t) => iface = NoIface
     /\ \A a \in StartArgs : StartWireguard(a) => iface = NoIface]_vars

\* The worker threads that have been started.
Started == {t \in Threads : threads[t].pc # "unstarted"}

\* C19: before the first submission no worker thread exists and the flag is
\* off; from the first submission on exactly one worker thread exists, it
\* has not ended, and the flag is on.
OneLazyWorker ==
  /\ jobs = <<>> => (Started = {} /\ ~running)
  /\ jobs # <<>> =>
       /\ Cardinality(Started) = 1
       /\ running
       /\ \A t \in Started : threads[t].pc # "dead"

\* C19 at work: the second submission arrived while the worker was fetching
\* the first job, and there is still one worker.
SecondSubmissionWhileFetching ==
  /\ Len(jobs) = 2
  /\ Fetching # {}
  /\ queue # <<>>
  /\ Cardinality(Started) = 1
  /\ Started # Threads

\* C20: in every snapshot the jobs of the backlog are queued, the in-flight
\* job is downloading and has a start time, and the jobs of the history are
\* completed or failed and have a completion time.
PositionAgreesWithStatus ==
  SnapshotTaken =>
    /\ \A d \in Range(call.snap.queued) : d.status = "queued"
    /\ \A d \in Range(call.snap.current) :
         d.status = "downloading" /\ d.started_at # Null
    /\ \A d \in Range(call.snap.recent_history) :
         d.status \in Terminal /\ d.completed_at # Null

\* C21: a job invokes bring-down only on the interface it brought up itself:
\* only after its own bring-up succeeded, and on the config that bring-up
\* started.
TearsDownOnlyOwnInterface ==
  \A t \in Threads :
    threads[t].down_on # NoIface =>
      /\ threads[t].vpn_started
      /\ threads[t].down_on = threads[t].config

====
